---- MODULE Spec2Model ----
(***************************************************************************)
(* Chinchonator (src/chinchonator.py): the card game Chinchon played by a  *)
(* human against the machine.  The model holds the Deck (cards, table),    *)
(* the two Hands, the Game counters and the position of control inside the *)
(* command handlers.  Sequences are Python lists: index 1 here is index 0  *)
(* there, and list.pop() takes the LAST element.                           *)
(*                                                                         *)
(* The source deals 7 cards out of 4 suits x 10 numbers.  The game         *)
(* specification Spec runs the same code on a smaller deck (NumSuits x     *)
(* NumRanks cards, HandSize cards per hand); the evaluation specification  *)
(* SpecEval applies Hand.evaluate to hands of the real deck, 7 cards       *)
(* included.                                                               *)
(***************************************************************************)
EXTENDS Integers, Sequences, FiniteSets, TLC

VARIABLES
    cards,          \* Deck.cards: the face-down pile, top = last element
    table,          \* Deck.table: the face-up pile, top = last element
    human,          \* Game.human.cards
    machine,        \* Game.machine.cards
    human_count,    \* Game.human_count
    machine_count,  \* Game.machine_count
    pc,             \* where control is: "prompt", "move_get", "move_decide", "flip"
    handler,        \* the command being served: "", "do_throw", "do_move"
    who,            \* the Hand whose move() / flip is running
    do_loop,        \* do_move's do_loop
    flip_pos,       \* the position move() returned (-1: none)
    running,        \* FALSE once an exception left cmdloop uncaught
    last,           \* what the latest step did: the Hand operation, its outcome
    ncmd,           \* commands read so far
    ev_in,          \* do_evaluate: the cards given
    ev_out          \* do_evaluate: the result printed

vars == <<cards, table, human, machine, human_count, machine_count, pc, handler,
          who, do_loop, flip_pos, running, last, ncmd, ev_in, ev_out>>

gameVars == <<cards, table, human, machine, human_count, machine_count>>

(***************************************************************************)
(* Bounds of the model.                                                    *)
(***************************************************************************)
HandSize == 3      \* cards dealt to a hand (7 in the source)
NumSuits == 3      \* suits in the deck of Spec (4 in the source)
NumRanks == 3      \* numbers per suit in the deck of Spec (10 in the source)
MaxCmds == 2       \* commands carried out from the prompt in one behaviour
MaxEvalLen == 7    \* longest hand given to do_evaluate in SpecEval

(***************************************************************************)
(* Program constants.                                                      *)
(***************************************************************************)
FigureValue == 10  \* Card.__init__: value of a card whose number is above 10
FlipMax == 4       \* Hand.throw: "Can't flip with more than 4"
CloseBelow == 5    \* Hand.move: val < 5 and pos[6].number < 5
WinLimit == 100    \* Game.flip: a count above 100 ends the cycle
ChinchonScore == -10  \* Game.flip: a hand worth 0 scores -10
InitMinValue == 900   \* Hand.evaluate: min_value = 900

SuitNames == <<"Bastos", "Copas", "Espadas", "Oros">>

(***************************************************************************)
(* Card                                                                    *)
(***************************************************************************)
Card(suit, number) ==
    [suit |-> suit, number |-> number,
     value |-> IF number > FigureValue THEN FigureValue ELSE number]

Min(a, b) == IF a < b THEN a ELSE b

RemoveAt(s, i) == [j \in 1..(Len(s) - 1) |-> IF j < i THEN s[j] ELSE s[j + 1]]

Range(s) == {s[i] : i \in 1..Len(s)}

RECURSIVE SumSeq(_, _)
SumSeq(s, i) == IF i > Len(s) THEN 0 ELSE s[i] + SumSeq(s, i + 1)

(***************************************************************************)
(* Hand.straight_evaluate: the scan of one arrangement.  ScanLoop is the   *)
(* "while True" loop over n (n here is n + 1 there); values starts as the  *)
(* cards' values.  A run or a set found on (n-2, n-1, n) zeroes the three  *)
(* entries only when the two earlier ones are still non-zero; when they    *)
(* are not, values[n] is left as it is.                                    *)
(***************************************************************************)
IsRun(base, n) ==
    /\ base[n].number = base[n - 1].number + 1
    /\ base[n - 1].number = base[n - 2].number + 1
    /\ base[n].suit = base[n - 1].suit
    /\ base[n - 1].suit = base[n - 2].suit

IsSet(base, n) ==
    /\ base[n].number = base[n - 1].number
    /\ base[n - 1].number = base[n - 2].number

\* Mutation of ScanLoop: a meld found zeroes values[n] and values[n - 1] only
RECURSIVE ScanLoop_forgets_first(_, _, _)
ScanLoop_forgets_first(base, values, n) ==
    IF n > Len(base) THEN values
    ELSE IF n >= 3 THEN
        IF IsRun(base, n) \/ IsSet(base, n) THEN
            IF values[n - 1] # 0 /\ values[n - 2] # 0
            THEN ScanLoop_forgets_first(base, [values EXCEPT ![n] = 0, ![n - 1] = 0], n + 1)
            ELSE ScanLoop_forgets_first(base, values, n + 1)
        ELSE ScanLoop_forgets_first(base, [values EXCEPT ![n] = base[n].value], n + 1)
    ELSE ScanLoop_forgets_first(base, [values EXCEPT ![n] = base[n].value], n + 1)

RECURSIVE ScanLoop(_, _, _)
ScanLoop(base, values, n) ==
    IF n > Len(base) THEN values
    ELSE IF n >= 3 THEN
        IF IsRun(base, n) THEN
            IF values[n - 1] # 0 /\ values[n - 2] # 0
            THEN ScanLoop(base, [values EXCEPT ![n] = 0, ![n - 1] = 0, ![n - 2] = 0], n + 1)
            ELSE ScanLoop(base, values, n + 1)
        ELSE IF IsSet(base, n) THEN
            IF values[n - 1] # 0 /\ values[n - 2] # 0
            THEN ScanLoop(base, [values EXCEPT ![n] = 0, ![n - 1] = 0, ![n - 2] = 0], n + 1)
            ELSE ScanLoop(base, values, n + 1)
        ELSE ScanLoop(base, [values EXCEPT ![n] = base[n].value], n + 1)
    ELSE ScanLoop(base, [values EXCEPT ![n] = base[n].value], n + 1)

ScanValues(base) == ScanLoop(base, [i \in 1..Len(base) |-> base[i].value], 1)

\* Mutation of Positional: the index is counted from the front
Positional_forward(values) ==
    [i \in 1..Len(values) |-> IF values[i] = 0 THEN 0 ELSE i - 1]

\* positional = reversed(range(l)), zeroed where values[n] == 0
Positional(values) ==
    [i \in 1..Len(values) |-> IF values[i] = 0 THEN 0 ELSE Len(values) - i]

straight_evaluate(base) ==
    LET values == ScanValues(base)
    IN  [total |-> SumSeq(values, 1), total_pos |-> SumSeq(Positional(values), 1)]

(***************************************************************************)
(* Hand.evaluate: the loop over itertools.permutations(base), which yields *)
(* the arrangements in lexicographic order of the input positions.         *)
(* min_pos = -1 stands for None.  EvalStep is the loop body: on a strictly *)
(* lower value min_pos is set only if it is still None.                    *)
(***************************************************************************)
EvalStart == [min_value |-> InitMinValue, min_pos |-> -1, best_position |-> <<>>]

\* Mutation of EvalStep: the first comparison is turned round
EvalStep_keeps_higher(acc, position) ==
    LET cur == straight_evaluate(position)
    IN  IF cur.total > acc.min_value
        THEN [min_value |-> cur.total,
              min_pos |-> IF acc.min_pos = -1 THEN cur.total_pos ELSE acc.min_pos,
              best_position |-> position]
        ELSE IF cur.total = acc.min_value /\ acc.min_pos > cur.total_pos
        THEN [acc EXCEPT !.best_position = position, !.min_pos = cur.total_pos]
        ELSE acc

EvalStep(acc, position) ==
    LET cur == straight_evaluate(position)
    IN  IF cur.total < acc.min_value
        THEN [min_value |-> cur.total,
              min_pos |-> IF acc.min_pos = -1 THEN cur.total_pos ELSE acc.min_pos,
              best_position |-> position]
        ELSE IF cur.total = acc.min_value /\ acc.min_pos > cur.total_pos
        THEN [acc EXCEPT !.best_position = position, !.min_pos = cur.total_pos]
        ELSE acc

\* The fold over the arrangements that extend prefix, trying input positions
\* k, k+1, ... for the next place; used holds the positions already taken.
\* min_value is never negative: the first test only has acc computed before
\* the fold goes on.
RECURSIVE PermFold(_, _, _, _, _)
PermFold(base, prefix, used, k, acc) ==
    IF acc.min_value < 0 THEN acc
    ELSE IF Len(prefix) = Len(base) THEN EvalStep(acc, prefix)
    ELSE IF k > Len(base) THEN acc
    ELSE IF k \in used THEN PermFold(base, prefix, used, k + 1, acc)
    ELSE PermFold(base, prefix, used, k + 1,
                  PermFold(base, Append(prefix, base[k]), used \cup {k}, 1, acc))

evaluate(base) ==
    LET r == PermFold(base, <<>>, {}, 1, EvalStart)
    IN  [pos |-> r.best_position, val |-> r.min_value]

(***************************************************************************)
(* random.shuffle: any order may come out.  The model keeps four of them:  *)
(* the list as it is, the list reversed, and each of the two riffled (the  *)
(* cards at the odd places, then those at the even places).                *)
(***************************************************************************)
Reverse(s) == [i \in 1..Len(s) |-> s[Len(s) + 1 - i]]

Riffle(s) ==
    LET odd == (Len(s) + 1) \div 2
    IN  [i \in 1..Len(s) |-> IF i <= odd THEN s[(2 * i) - 1] ELSE s[2 * (i - odd)]]

shuffle(s) == {s, Reverse(s), Riffle(s), Riffle(Reverse(s))}

(***************************************************************************)
(* Deck                                                                    *)
(***************************************************************************)
\* Deck.__init__ before the shuffle: suits outside, numbers inside
NewCards ==
    [i \in 1..(NumSuits * NumRanks) |->
        Card(SuitNames[((i - 1) \div NumRanks) + 1], ((i - 1) % NumRanks) + 1)]

DeckCards == Range(NewCards)

NoCard == Card("None", 0)

\* Mutation of get_down: the reshuffle takes the whole table, top card included
get_down_moves_all(c, t) ==
    IF Len(c) > 0
    THEN {[exc |-> "", card |-> c[Len(c)], cards |-> SubSeq(c, 1, Len(c) - 1),
           table |-> t, reshuffled |-> FALSE]}
    ELSE {IF Len(sh) = 0
          THEN [exc |-> "IndexError", card |-> NoCard, cards |-> sh,
                table |-> <<>>, reshuffled |-> TRUE]
          ELSE [exc |-> "", card |-> sh[Len(sh)],
                cards |-> SubSeq(sh, 1, Len(sh) - 1),
                table |-> <<>>, reshuffled |-> TRUE] : sh \in shuffle(t)}

\* Deck.get_down: the outcomes [exc, card, cards, table, reshuffled].  With the
\* pile empty every table card but the last goes to the pile, which is shuffled;
\* pop() of a pile still empty raises IndexError out of the except clause.
get_down(c, t) ==
    IF Len(c) > 0
    THEN {[exc |-> "", card |-> c[Len(c)], cards |-> SubSeq(c, 1, Len(c) - 1),
           table |-> t, reshuffled |-> FALSE]}
    ELSE LET moved == IF Len(t) = 0 THEN <<>> ELSE SubSeq(t, 1, Len(t) - 1)
             rest == IF Len(t) = 0 THEN <<>> ELSE <<t[Len(t)]>>
         IN  {IF Len(sh) = 0
              THEN [exc |-> "IndexError", card |-> NoCard, cards |-> sh,
                    table |-> rest, reshuffled |-> TRUE]
              ELSE [exc |-> "", card |-> sh[Len(sh)],
                    cards |-> SubSeq(sh, 1, Len(sh) - 1),
                    table |-> rest, reshuffled |-> TRUE] : sh \in shuffle(moved)}

\* Deck.last: the top of the table, or the string 'Empty'
deck_last(t) == IF Len(t) = 0 THEN "Empty" ELSE t[Len(t)]

(***************************************************************************)
(* Hand.  Each operation gives its outcomes as records                     *)
(* [exc, hand, cards, table, card, reshuffled]; exc = "" is a normal       *)
(* return.  position is the Python (0-based) index.                        *)
(***************************************************************************)
Outcome(exc, h, c, t, card, re) ==
    [exc |-> exc, hand |-> h, cards |-> c, table |-> t, card |-> card, reshuffled |-> re]

\* Hand.__init__: 7 times get_down from a full pile
DealHand(d, k) == [i \in 1..HandSize |-> d[Len(d) + 1 - (k * HandSize) - i]]

\* Mutation of throw: a close is refused above 5 instead of above 4
throw_flip_limit(h, c, t, position, flip) ==
    IF Len(h) # HandSize + 1
    THEN Outcome("IllegalMovement", h, c, t, NoCard, FALSE)
    ELSE IF flip /\ evaluate(RemoveAt(h, position + 1)).val > CloseBelow
    THEN Outcome("IllegalMovement", h, c, t, NoCard, FALSE)
    ELSE Outcome("", RemoveAt(h, position + 1), c, Append(t, h[position + 1]),
                 h[position + 1], FALSE)

\* Mutation of throw: the size of the hand is not looked at
throw_unchecked(h, c, t, position, flip) ==
    IF flip /\ evaluate(RemoveAt(h, position + 1)).val > FlipMax
    THEN Outcome("IllegalMovement", h, c, t, NoCard, FALSE)
    ELSE Outcome("", RemoveAt(h, position + 1), c, Append(t, h[position + 1]),
                 h[position + 1], FALSE)

throw(h, c, t, position, flip) ==
    IF Len(h) # HandSize + 1
    THEN Outcome("IllegalMovement", h, c, t, NoCard, FALSE)
    ELSE IF flip /\ evaluate(RemoveAt(h, position + 1)).val > FlipMax
    THEN Outcome("IllegalMovement", h, c, t, NoCard, FALSE)
    ELSE Outcome("", RemoveAt(h, position + 1), c, Append(t, h[position + 1]),
                 h[position + 1], FALSE)

\* Mutation of get_deck: the card is drawn before the size of the hand is
\* looked at
get_deck_draws_first(h, c, t) ==
    {IF o.exc # ""
     THEN Outcome(o.exc, h, o.cards, o.table, NoCard, o.reshuffled)
     ELSE IF Len(h) # HandSize
     THEN Outcome("IllegalMovement", Append(h, o.card), o.cards, o.table, NoCard,
                  o.reshuffled)
     ELSE Outcome("", Append(h, o.card), o.cards, o.table, o.card, o.reshuffled)
     : o \in get_down(c, t)}

get_deck(h, c, t) ==
    IF Len(h) # HandSize
    THEN {Outcome("IllegalMovement", h, c, t, NoCard, FALSE)}
    ELSE {IF o.exc # ""
          THEN Outcome(o.exc, h, o.cards, o.table, NoCard, o.reshuffled)
          ELSE Outcome("", Append(h, o.card), o.cards, o.table, o.card, o.reshuffled)
          : o \in get_down(c, t)}

\* Mutation of get_table: the card taken stays on the table
get_table_no_pop(h, c, t) ==
    IF Len(h) # HandSize
    THEN Outcome("IllegalMovement", h, c, t, NoCard, FALSE)
    ELSE IF Len(t) = 0
    THEN Outcome("IndexError", h, c, t, NoCard, FALSE)
    ELSE Outcome("", Append(h, t[Len(t)]), c, t, t[Len(t)], FALSE)

get_table(h, c, t) ==
    IF Len(h) # HandSize
    THEN Outcome("IllegalMovement", h, c, t, NoCard, FALSE)
    ELSE IF Len(t) = 0
    THEN Outcome("IndexError", h, c, t, NoCard, FALSE)
    ELSE Outcome("", Append(h, t[Len(t)]), c, SubSeq(t, 1, Len(t) - 1), t[Len(t)], FALSE)

\* Hand.deck_or_table: TRUE = deck, FALSE = table.  With the table empty
\* Deck.last gives 'Empty', whose .value evaluate cannot read.
deck_or_table_exc(h, t) == IF Len(t) = 0 THEN "AttributeError" ELSE ""

\* Mutation of deck_or_table: the two answers are exchanged
deck_or_table_exchanged(h, t) ==
    LET curval == evaluate(h).val
        val == evaluate(Append(h, deck_last(t))).val
    IN  val < curval

deck_or_table(h, t) ==
    LET curval == evaluate(h).val
        val == evaluate(Append(h, deck_last(t))).val
    IN  ~(val < curval)

\* Hand.move after the draw: nthrow (0-based) and whether move returns it
\* (a close) instead of throwing.
IndexOf(h, card) == CHOOSE i \in 1..Len(h) : h[i] = card

move_nthrow(h) ==
    LET e == evaluate(h)
    IN  IndexOf(h, e.pos[HandSize + 1]) - 1

\* Mutation of move_closes: a close is signalled up to a value of 5
move_closes_at_five(h, nthrow) ==
    LET e == evaluate(RemoveAt(h, nthrow + 1))
    IN  e.val <= CloseBelow /\ e.pos[HandSize].number <= CloseBelow

move_closes(h, nthrow) ==
    LET e == evaluate(RemoveAt(h, nthrow + 1))
    IN  e.val < CloseBelow /\ e.pos[HandSize].number < CloseBelow

(***************************************************************************)
(* Game                                                                    *)
(***************************************************************************)
NoOp ==
    [op |-> "", who |-> "", exc |-> "", position |-> -1, card |-> NoCard,
     reshuffled |-> FALSE, hval |-> 0, mval |-> 0, said |-> {}]

Did(op, w, r, position) ==
    [NoOp EXCEPT !.op = op, !.who = w, !.exc = r.exc, !.position = position,
                 !.card = r.card, !.reshuffled = r.reshuffled]

\* a command refused before it looked at its position
Refused(op, exc) == [NoOp EXCEPT !.op = op, !.who = "human", !.exc = exc]

HandOf(w) == IF w = "human" THEN human ELSE machine

\* the assignment of an outcome r of an operation of w's Hand
Apply(w, r) ==
    /\ cards' = r.cards
    /\ table' = r.table
    /\ human' = IF w = "human" THEN r.hand ELSE human
    /\ machine' = IF w = "machine" THEN r.hand ELSE machine

\* Mutation of reset: the table of the round that ended is kept
reset_keeps_table(d) ==
    /\ human' = DealHand(d, 0)
    /\ machine' = DealHand(d, 1)
    /\ table' = Append(table, d[Len(d) - (2 * HandSize)])
    /\ cards' = SubSeq(d, 1, Len(d) - (2 * HandSize) - 1)

\* Mutation of reset: no card is turned up after the deal
reset_no_first_up(d) ==
    /\ human' = DealHand(d, 0)
    /\ machine' = DealHand(d, 1)
    /\ table' = <<>>
    /\ cards' = SubSeq(d, 1, Len(d) - (2 * HandSize))

\* Game.reset on the shuffled deck d: two Hands of 7, then Deck.first_up
reset(d) ==
    /\ human' = DealHand(d, 0)
    /\ machine' = DealHand(d, 1)
    /\ table' = <<d[Len(d) - (2 * HandSize)]>>
    /\ cards' = SubSeq(d, 1, Len(d) - (2 * HandSize) - 1)

\* Game.flip: a hand worth 0 counts -10
Score(val) == IF val = 0 THEN ChinchonScore ELSE val

\* the states the counters may hold when a behaviour of the model starts
StartCounts == {<<0, 0>>, <<WinLimit, WinLimit - 4>>}

Init ==
    /\ \E d \in shuffle(NewCards) :
          /\ human = DealHand(d, 0)
          /\ machine = DealHand(d, 1)
          /\ table = <<d[Len(d) - (2 * HandSize)]>>
          /\ cards = SubSeq(d, 1, Len(d) - (2 * HandSize) - 1)
    /\ \E sc \in StartCounts : human_count = sc[1] /\ machine_count = sc[2]
    /\ pc = "prompt" /\ handler = "" /\ who = "" /\ do_loop = FALSE /\ flip_pos = -1
    /\ running = TRUE /\ last = NoOp /\ ncmd = 0
    /\ ev_in = <<>> /\ ev_out = [kind |-> "none"]

AtPrompt == running /\ pc = "prompt" /\ ncmd < MaxCmds

\* a command that ends at once: back to the prompt, or out of cmdloop when the
\* handler does not catch exc.  ncmd counts the commands that were carried out.
EndCommand(exc, caught) ==
    /\ pc' = "prompt" /\ handler' = "" /\ who' = "" /\ do_loop' = FALSE /\ flip_pos' = -1
    /\ running' = caught
    /\ ncmd' = IF exc = "" THEN ncmd + 1 ELSE ncmd
    /\ UNCHANGED <<ev_in, ev_out>>

\* Game.do_deck
DoDeck ==
    /\ AtPrompt
    /\ \E r \in get_deck(human, cards, table) :
          /\ Apply("human", r)
          /\ last' = Did("get_deck", "human", r, -1)
          /\ EndCommand(r.exc, r.exc \in {"", "IllegalMovement"})
    /\ UNCHANGED <<human_count, machine_count>>

\* Game.do_table
DoTable ==
    /\ AtPrompt
    /\ \E r \in {get_table(human, cards, table)} :
          /\ Apply("human", r)
          /\ last' = Did("get_table", "human", r, -1)
          /\ EndCommand(r.exc, r.exc \in {"", "IllegalMovement"})
    /\ UNCHANGED <<human_count, machine_count>>

\* int(args) - 1 outside 0..7 raises ValueError, which do_throw and do_flip catch
BadPosition(position) == position < 0 \/ position > HandSize

ParseFails(op) ==
    /\ UNCHANGED gameVars
    /\ last' = Refused(op, "ValueError")
    /\ EndCommand("ValueError", TRUE)

\* Mutation of DoThrow: the machine is not asked to move after the throw
DoThrow_no_machine_move(arg) ==
    /\ AtPrompt
    /\ IF BadPosition(arg - 1) THEN ParseFails("throw")
       ELSE \E r \in {throw(human, cards, table, arg - 1, FALSE)} :
               /\ Apply("human", r)
               /\ UNCHANGED <<human_count, machine_count>>
               /\ last' = IF r.exc # "" THEN Refused("throw", r.exc)
                          ELSE Did("throw", "human", r, arg - 1)
               /\ EndCommand(r.exc, TRUE)

\* Game.do_throw up to the call of machine.move()
DoThrow(arg) ==
    /\ AtPrompt
    /\ IF BadPosition(arg - 1) THEN ParseFails("throw")
       ELSE \E r \in {throw(human, cards, table, arg - 1, FALSE)} :
               /\ Apply("human", r)
               /\ UNCHANGED <<human_count, machine_count>>
               /\ IF r.exc # ""
                  THEN /\ last' = Refused("throw", r.exc)
                       /\ EndCommand(r.exc, TRUE)
                  ELSE /\ last' = Did("throw", "human", r, arg - 1)
                       /\ pc' = "move_get" /\ handler' = "do_throw"
                       /\ who' = "machine" /\ do_loop' = FALSE /\ flip_pos' = -1
                       /\ running' = TRUE /\ ncmd' = ncmd + 1
                       /\ UNCHANGED <<ev_in, ev_out>>

\* Game.do_move up to the first call of human.move()
DoMove(loop) ==
    /\ AtPrompt
    /\ pc' = "move_get" /\ handler' = "do_move" /\ who' = "human"
    /\ do_loop' = loop /\ flip_pos' = -1
    /\ last' = [NoOp EXCEPT !.op = "do_move", !.who = "human"]
    /\ ncmd' = ncmd + 1
    /\ UNCHANGED <<gameVars, running, ev_in, ev_out>>

\* an exception inside Hand.move or Game.flip: do_throw catches IllegalMovement
\* and ValueError, do_move catches nothing
Raise(exc) ==
    /\ pc' = "prompt" /\ handler' = "" /\ who' = "" /\ do_loop' = FALSE /\ flip_pos' = -1
    /\ running' = (handler = "do_throw" /\ exc \in {"IllegalMovement", "ValueError"})
    /\ UNCHANGED <<ncmd, ev_in, ev_out>>

\* where control goes when w's move() has returned -1, or w's flip is done
Continue(loop) ==
    /\ IF handler = "do_move" /\ who = "human"
       THEN pc' = "move_get" /\ who' = "machine" /\ handler' = handler
       ELSE IF handler = "do_move" /\ loop
       THEN pc' = "move_get" /\ who' = "human" /\ handler' = handler
       ELSE pc' = "prompt" /\ who' = "" /\ handler' = ""
    /\ do_loop' = (loop /\ handler = "do_move")
    /\ flip_pos' = -1
    /\ UNCHANGED <<running, ncmd, ev_in, ev_out>>

\* Mutation of MoveSource: the top card of the table is appended to the hand
\* itself, not to a copy of it
MoveSource_appends_in_place(h, t) ==
    [exc |-> deck_or_table_exc(h, t),
     fromdeck |-> Len(h) # HandSize \/ Len(t) = 0 \/ deck_or_table(h, t),
     hand |-> IF Len(t) = 0 THEN h ELSE Append(h, deck_last(t))]

\* Hand.move, first half: deck_or_table, then get_deck or get_table.  A hand
\* that does not hold 7 cards is refused by either, so the choice is not
\* computed for it.  hand is self.cards when deck_or_table has returned: the
\* card of the table was appended to toeval, a copy.
MoveSource(h, t) ==
    [exc |-> deck_or_table_exc(h, t),
     fromdeck |-> Len(h) # HandSize \/ Len(t) = 0 \/ deck_or_table(h, t),
     hand |-> h]

MoveGet ==
    /\ running /\ pc = "move_get"
    /\ UNCHANGED <<human_count, machine_count>>
    /\ \E src \in {MoveSource(HandOf(who), table)} :
          IF src.exc # ""
          THEN /\ UNCHANGED <<cards, table, human, machine>>
               /\ last' = [NoOp EXCEPT !.op = "deck_or_table", !.who = who, !.exc = src.exc]
               /\ Raise(src.exc)
          ELSE \E r \in (IF src.fromdeck THEN get_deck(src.hand, cards, table)
                         ELSE {get_table(src.hand, cards, table)}) :
                  /\ Apply(who, r)
                  /\ last' = Did(IF src.fromdeck THEN "get_deck" ELSE "get_table", who, r, -1)
                  /\ IF r.exc # "" THEN Raise(r.exc)
                     ELSE /\ pc' = "move_decide"
                          /\ UNCHANGED <<handler, who, do_loop, flip_pos, running,
                                         ncmd, ev_in, ev_out>>

\* Hand.move, second half: the card to throw is the last of the best
\* arrangement of the 8 cards; the move returns its position when the other 7
\* allow a close, and throws it otherwise.  hand is self.cards after the
\* evaluations: the card was deleted from toeval, a copy.
MoveChoice(h) ==
    LET nthrow == move_nthrow(h)
    IN  [nthrow |-> nthrow, closes |-> move_closes(h, nthrow), hand |-> h]

MoveDecide ==
    /\ running /\ pc = "move_decide"
    /\ UNCHANGED <<human_count, machine_count>>
    /\ \E m \in {MoveChoice(HandOf(who))} :
          IF m.closes
          THEN /\ UNCHANGED <<cards, table>>
               /\ human' = IF who = "human" THEN m.hand ELSE human
               /\ machine' = IF who = "machine" THEN m.hand ELSE machine
               /\ last' = [NoOp EXCEPT !.op = "signal", !.who = who, !.position = m.nthrow]
               /\ pc' = "flip" /\ flip_pos' = m.nthrow
               /\ UNCHANGED <<handler, who, do_loop, running, ncmd, ev_in, ev_out>>
          ELSE \E r \in {throw(m.hand, cards, table, m.nthrow, FALSE)} :
                  /\ Apply(who, r)
                  /\ last' = Did("move_throw", who, r, m.nthrow)
                  /\ IF r.exc # "" THEN Raise(r.exc) ELSE Continue(do_loop)

\* Mutation of FlipResult: a total of exactly 100 already ends the cycle
FlipResult_at_limit(w, position) ==
    LET r == throw(HandOf(w), cards, table, position, TRUE)
        hval == Score(evaluate(IF w = "human" THEN r.hand ELSE human).val)
        mval == Score(evaluate(IF w = "machine" THEN r.hand ELSE machine).val)
        mc == machine_count + mval
        hc == human_count + hval
        machine_won == hc >= WinLimit
        mc2 == IF machine_won THEN 0 ELSE mc
        hc2 == IF machine_won THEN 0 ELSE hc
        human_won == mc2 >= WinLimit
    IN  IF r.exc # ""
        THEN [r |-> r, hval |-> 0, mval |-> 0, human_count |-> human_count,
              machine_count |-> machine_count, said |-> {}]
        ELSE [r |-> r, hval |-> hval, mval |-> mval,
              human_count |-> IF human_won THEN 0 ELSE hc2,
              machine_count |-> IF human_won THEN 0 ELSE mc2,
              said |-> (IF machine_won THEN {"Machine won"} ELSE {})
                       \cup (IF human_won THEN {"Human won"} ELSE {})]

\* Game.flip(position, human = (w = "human")) up to reset: the throw face down,
\* the two values, the counters and the winner printed.
FlipResult(w, position) ==
    LET r == throw(HandOf(w), cards, table, position, TRUE)
        hval == Score(evaluate(IF w = "human" THEN r.hand ELSE human).val)
        mval == Score(evaluate(IF w = "machine" THEN r.hand ELSE machine).val)
        mc == machine_count + mval
        hc == human_count + hval
        machine_won == hc > WinLimit
        mc2 == IF machine_won THEN 0 ELSE mc
        hc2 == IF machine_won THEN 0 ELSE hc
        human_won == mc2 > WinLimit
    IN  IF r.exc # ""
        THEN [r |-> r, hval |-> 0, mval |-> 0, human_count |-> human_count,
              machine_count |-> machine_count, said |-> {}]
        ELSE [r |-> r, hval |-> hval, mval |-> mval,
              human_count |-> IF human_won THEN 0 ELSE hc2,
              machine_count |-> IF human_won THEN 0 ELSE mc2,
              said |-> (IF machine_won THEN {"Machine won"} ELSE {})
                       \cup (IF human_won THEN {"Human won"} ELSE {})]

\* Game.flip: FlipResult, then Game.reset on a freshly shuffled deck
FlipBody(w, position) ==
    \E f \in {FlipResult(w, position)} :
        IF f.r.exc # ""
        THEN /\ UNCHANGED gameVars
             /\ last' = IF Len(HandOf(w)) # HandSize + 1 THEN Refused("flip", f.r.exc)
                        ELSE Did("flip", w, f.r, position)
        ELSE /\ machine_count' = f.machine_count
             /\ human_count' = f.human_count
             /\ last' = [Did("flip", w, f.r, position) EXCEPT
                            !.hval = f.hval, !.mval = f.mval, !.said = f.said]
             /\ \E d \in shuffle(NewCards) : reset(d)

\* the call of Game.flip that follows a move() which returned a position
Flip ==
    /\ running /\ pc = "flip"
    /\ FlipBody(who, flip_pos)
    /\ IF last'.exc # "" THEN Raise(last'.exc) ELSE Continue(FALSE)

\* Game.do_flip
DoFlip(arg) ==
    /\ AtPrompt
    /\ IF BadPosition(arg - 1) THEN ParseFails("flip")
       ELSE /\ FlipBody("human", arg - 1)
            /\ EndCommand(last'.exc, TRUE)

Next ==
    \/ DoDeck
    \/ DoTable
    \/ \E arg \in 0..(HandSize + 2) : DoThrow(arg)
    \/ \E arg \in 0..(HandSize + 2) : DoFlip(arg)
    \/ \E loop \in BOOLEAN : DoMove(loop)
    \/ MoveGet
    \/ MoveDecide
    \/ Flip

Spec == Init /\ [][Next]_vars

(***************************************************************************)
(* Game.do_evaluate: Hand.evaluate (or, with "straight", the scan alone)   *)
(* applied to cards typed at the prompt.  SpecEval draws them from hands   *)
(* of the real deck (numbers 1..10, where 8, 9, 10 are Sota, Caballo,      *)
(* Rey): each row below, cut after 3 .. MaxEvalLen cards.                  *)
(***************************************************************************)
EvalRows ==
    << <<<<1,1>>, <<1,2>>, <<1,3>>, <<1,4>>, <<2,5>>, <<3,5>>, <<4,5>>, <<4,9>>>>,
       <<<<1,2>>, <<1,1>>, <<1,3>>, <<4,7>>, <<2,7>>, <<3,7>>, <<1,10>>, <<4,4>>>>,
       <<<<1,9>>, <<2,9>>, <<3,9>>, <<4,1>>, <<2,3>>, <<3,5>>, <<1,7>>, <<4,10>>>>,
       <<<<2,5>>, <<1,1>>, <<3,7>>, <<1,2>>, <<4,9>>, <<1,3>>, <<2,10>>, <<3,4>>>>,
       <<<<1,1>>, <<2,3>>, <<3,5>>, <<4,7>>, <<1,9>>, <<2,10>>, <<3,2>>, <<4,4>>>>,
       <<<<1,5>>, <<1,6>>, <<1,7>>, <<1,8>>, <<1,9>>, <<1,10>>, <<2,1>>, <<4,2>>>>,
       <<<<2,4>>, <<3,4>>, <<4,4>>, <<1,4>>, <<1,5>>, <<1,6>>, <<2,2>>, <<3,9>>>>,
       <<<<4,3>>, <<4,2>>, <<4,1>>, <<3,6>>, <<2,6>>, <<1,6>>, <<4,6>>, <<2,1>>>> >>

RowCards(row, n) == [i \in 1..n |-> Card(SuitNames[row[i][1]], row[i][2])]

EvalInputs ==
    {RowCards(EvalRows[k], n) : k \in 1..Len(EvalRows), n \in 3..Min(MaxEvalLen, 8)}

InitEval ==
    /\ ev_in \in EvalInputs
    /\ ev_out = [kind |-> "none"]
    /\ human = DealHand(NewCards, 0)
    /\ machine = DealHand(NewCards, 1)
    /\ table = <<NewCards[Len(NewCards) - (2 * HandSize)]>>
    /\ cards = SubSeq(NewCards, 1, Len(NewCards) - (2 * HandSize) - 1)
    /\ human_count = 0 /\ machine_count = 0
    /\ pc = "prompt" /\ handler = "" /\ who = "" /\ do_loop = FALSE /\ flip_pos = -1
    /\ running = TRUE /\ last = NoOp /\ ncmd = 0

\* evaluate <cards>
DoEvaluate ==
    /\ ev_out.kind = "none"
    /\ \E e \in {evaluate(ev_in)} :
          ev_out' = [kind |-> "evaluate", pos |-> e.pos, val |-> e.val]
    /\ UNCHANGED <<gameVars, pc, handler, who, do_loop, flip_pos, running, last, ncmd, ev_in>>

\* evaluate straight <cards>
DoEvaluateStraight ==
    /\ ev_out.kind = "none"
    /\ \E e \in {straight_evaluate(ev_in)} :
          ev_out' = [kind |-> "straight", pos |-> e.total, val |-> e.total_pos]
    /\ UNCHANGED <<gameVars, pc, handler, who, do_loop, flip_pos, running, last, ncmd, ev_in>>

NextEval == DoEvaluate \/ DoEvaluateStraight

SpecEval == InitEval /\ [][NextEval]_vars

(***************************************************************************)
(* What the rules call a meld, for stating the claims: a set is 3 or more  *)
(* cards of one number, a run is 3 or more cards of one suit whose numbers *)
(* are consecutive.  Deadwood(S) is the least sum of values left loose     *)
(* over all ways of taking disjoint melds out of S.                        *)
(***************************************************************************)
SumValues(S) ==
    LET RECURSIVE Sum(_)
        Sum(T) == IF T = {} THEN 0
                  ELSE LET c == CHOOSE x \in T : TRUE IN c.value + Sum(T \ {c})
    IN  Sum(S)

IsMeld(M) ==
    /\ Cardinality(M) >= 3
    /\ \/ \A a, b \in M : a.number = b.number
       \/ /\ \A a, b \in M : a.suit = b.suit
          /\ \E lo \in {c.number : c \in M} :
                {c.number : c \in M} = lo..(lo + Cardinality(M) - 1)

RECURSIVE Deadwood(_)
Deadwood(S) ==
    IF S = {} THEN 0
    ELSE LET c == CHOOSE x \in S : TRUE
             loose == c.value + Deadwood(S \ {c})
             melded == {Deadwood(S \ M) : M \in {X \in SUBSET S : c \in X /\ IsMeld(X)}}
         IN  IF melded = {} THEN loose
             ELSE Min(loose, CHOOSE m \in melded : \A o \in melded : m <= o)

(***************************************************************************)
(* Claims                                                                  *)
(***************************************************************************)
AllCards == cards \o table \o human \o machine

\* C1: in every reachable state the draw pile, the discard pile and the two
\* hands together hold exactly the cards of the deck: the sizes sum to the
\* size of the deck and no card is duplicated or missing.
C1_CardsConserved ==
    /\ Len(AllCards) = NumSuits * NumRanks
    /\ Range(AllCards) = DeckCards

\* C1 witness: the machine has drawn and discarded, so cards have moved between
\* the pile, the table and the hands.
C1_Witness ==
    /\ last.op = "move_throw" /\ last.who = "machine" /\ last.exc = ""
    /\ Len(table) >= 2

\* C2 (as claimed): a hand of 7 cards that can be split entirely into runs and
\* sets of 3 or more cards is evaluated at 0 and scores -10 when the round is
\* closed.
C2_FullyMeldableScoresChinchon ==
    (ev_out.kind = "evaluate" /\ Len(ev_in) = 7 /\ Deadwood(Range(ev_in)) = 0)
        => (ev_out.val = 0 /\ Score(ev_out.val) = ChinchonScore)

\* C3 (as claimed): for 7 or 8 distinct cards the total returned by evaluate is
\* the least deadwood over all splits of the cards into disjoint melds (runs or
\* sets of 3 or more) and loose cards.
C3_EvaluateIsMinimumDeadwood ==
    (ev_out.kind = "evaluate" /\ Len(ev_in) \in {7, 8})
        => ev_out.val = Deadwood(Range(ev_in))

\* C4: a close of position p by a hand of 8 cards is accepted if and only if
\* the 7 cards left after removing the card at p evaluate to 4 or less, and is
\* refused with IllegalMovement otherwise, whoever closes.
C4_CloseLegalIffAtMostFour ==
    [][(last'.op = "flip" /\ last'.position >= 0 /\ Len(HandOf(last'.who)) = HandSize + 1)
          => /\ (last'.exc = "") <=>
                   (evaluate(RemoveAt(HandOf(last'.who), last'.position + 1)).val <= FlipMax)
             /\ last'.exc \in {"", "IllegalMovement"}]_vars

\* C4 witness: a close refused because the cards left are worth more than 4.
C4_Witness ==
    /\ last.op = "flip" /\ last.exc = "IllegalMovement" /\ last.position >= 0

\* C5: an operation that fails with IllegalMovement has no effect: the hands,
\* the piles and the counters are as before, no round is reset and the machine
\* takes no turn (control is back at the prompt).
C5_IllegalMovementHasNoEffect ==
    [][(last'.exc = "IllegalMovement")
          => (UNCHANGED gameVars /\ pc' = "prompt")]_vars

\* C5 witness: a close refused with IllegalMovement after the human has drawn.
C5_Witness ==
    /\ last.exc = "IllegalMovement" /\ last.op = "flip"
    /\ Len(human) = HandSize + 1

\* C6 (as claimed): at a round end, a player whose total exceeds 100 makes the
\* other player the declared winner and both totals go to 0; otherwise both
\* totals are kept; no total is above 100 afterwards.
C6_ExceedingDeclaresOther ==
    [][(last'.op = "flip" /\ last'.exc = "")
          => LET hs == human_count + last'.hval
                 ms == machine_count + last'.mval
             IN  /\ (hs > WinLimit) => ("Machine won" \in last'.said)
                 /\ (ms > WinLimit) => ("Human won" \in last'.said)
                 /\ (hs > WinLimit \/ ms > WinLimit)
                       => (human_count' = 0 /\ machine_count' = 0)
                 /\ ~(hs > WinLimit \/ ms > WinLimit)
                       => (human_count' = hs /\ machine_count' = ms /\ last'.said = {})
                 /\ human_count' <= WinLimit /\ machine_count' <= WinLimit]_vars

\* C6 (amended): the human's total is tested first.  If it exceeds 100 the
\* machine alone is declared winner; if it does not and the machine's total
\* exceeds 100 the human is declared winner; in both cases both totals go to
\* 0.  Otherwise (100 included) both totals are kept and nobody is declared.
\* No total is above 100 afterwards.
C6_ExceedingDeclaresOtherHumanFirst ==
    [][(last'.op = "flip" /\ last'.exc = "")
          => LET hs == human_count + last'.hval
                 ms == machine_count + last'.mval
             IN  /\ (hs > WinLimit) => (last'.said = {"Machine won"})
                 /\ (hs <= WinLimit /\ ms > WinLimit) => (last'.said = {"Human won"})
                 /\ (hs > WinLimit \/ ms > WinLimit)
                       => (human_count' = 0 /\ machine_count' = 0)
                 /\ ~(hs > WinLimit \/ ms > WinLimit)
                       => (human_count' = hs /\ machine_count' = ms /\ last'.said = {})
                 /\ human_count' <= WinLimit /\ machine_count' <= WinLimit]_vars

\* C6 witness: a round has ended with a winner declared and the totals at 0.
C6_Witness ==
    /\ last.op = "flip" /\ last.exc = "" /\ last.said # {}
    /\ human_count = 0 /\ machine_count = 0

\* C7 (as claimed): the card thrown by Hand.move leaves 7 cards whose evaluated
\* total is the least over the 8 cards that could have been thrown.
C7_MoveThrowsBestCard ==
    [][(last'.op = "move_throw" /\ last'.exc = "")
          => \A i \in 1..Len(HandOf(last'.who)) :
                evaluate(RemoveAt(HandOf(last'.who), last'.position + 1)).val
                    <= evaluate(RemoveAt(HandOf(last'.who), i)).val]_vars

\* C8: a draw from an empty pile succeeds by reshuffling: every table card but
\* the top one goes to the pile, the table keeps that one card, the card drawn
\* is one of those moved, and the cards are conserved.
C8_ReshuffleKeepsTop ==
    [][(last'.op = "get_deck" /\ Len(cards) = 0 /\ Len(HandOf(last'.who)) = HandSize)
          => /\ last'.exc = "" /\ last'.reshuffled
             /\ table' = <<table[Len(table)]>>
             /\ last'.card \in Range(SubSeq(table, 1, Len(table) - 1))
             /\ Range(cards') \cup {last'.card} = Range(SubSeq(table, 1, Len(table) - 1))
             /\ Len(cards') = Len(table) - 2
             /\ (IF last'.who = "human" THEN human' ELSE machine')
                    = Append(HandOf(last'.who), last'.card)
             /\ Len(cards' \o table' \o human' \o machine') = NumSuits * NumRanks
             /\ Range(cards' \o table' \o human' \o machine') = DeckCards]_vars

\* C8 witness: a draw that reshuffled.
C8_Witness == last.op = "get_deck" /\ last.reshuffled /\ last.exc = ""

\* C9: each hand holds 7 or 8 cards; the two never hold 8 together; the machine
\* holds 8 only inside its own move, never while the human holds 8, and holds
\* 7 whenever control is at the prompt.
C9_HandSizes ==
    /\ Len(human) \in {HandSize, HandSize + 1}
    /\ Len(machine) \in {HandSize, HandSize + 1}
    /\ ~(Len(human) = HandSize + 1 /\ Len(machine) = HandSize + 1)
    /\ (Len(machine) = HandSize + 1) => (who = "machine" /\ pc \in {"move_decide", "flip"})
    /\ (Len(human) = HandSize + 1)
          => (pc = "prompt" \/ (who = "human" /\ pc \in {"move_get", "move_decide", "flip"}))
    /\ (pc = "prompt") => (Len(machine) = HandSize)

\* C9 witness: the machine holds 8 cards inside its move, about to close.
C9_Witness == Len(machine) = HandSize + 1 /\ pc = "flip" /\ Len(human) = HandSize

\* the arrangements of a hand, as sequences
Arrangements(base) ==
    {[i \in 1..Len(base) |-> base[p[i]]] :
        p \in {q \in [1..Len(base) -> 1..Len(base)] :
                  \A i, j \in 1..Len(base) : q[i] = q[j] => i = j}}

\* C10 (as claimed): the arrangement returned by evaluate has the least total
\* of all arrangements and, among those with that total, the least pos_score.
C10_BestHasLeastPosScore ==
    (ev_out.kind = "evaluate")
        => \A a \in Arrangements(ev_in) :
              LET r == straight_evaluate(a)
              IN  /\ r.total >= ev_out.val
                  /\ (r.total = ev_out.val)
                        => r.total_pos >= straight_evaluate(ev_out.pos).total_pos

\* the melds of 3 or more cards that can be taken out of the cards S
MeldsIn(S) == {M \in SUBSET S : IsMeld(M)}

\* C11: a hand of 7 cards that holds exactly one meld, of 3 cards (a set or a
\* run), the other 4 cards forming no meld with each other or with the cards of
\* the meld, is evaluated at the sum of the values of those 4 cards.
C11_OneMeldLeavesTheRest ==
    (ev_out.kind = "evaluate" /\ Len(ev_in) = 7 /\ Cardinality(MeldsIn(Range(ev_in))) = 1)
        => \A M \in MeldsIn(Range(ev_in)) :
              Cardinality(M) = 3 => ev_out.val = SumValues(Range(ev_in) \ M)

\* C11 witness: a hand of 7 cards whose only meld is a run of 3 has been
\* evaluated.
C11_Witness ==
    /\ ev_out.kind = "evaluate" /\ Len(ev_in) = 7
    /\ \E M \in MeldsIn(Range(ev_in)) :
          /\ MeldsIn(Range(ev_in)) = {M}
          /\ Cardinality(M) = 3
          /\ \A a, b \in M : a.suit = b.suit

\* C12: the total returned by evaluate is never greater than the sum of the
\* values of the cards given.
C12_TotalAtMostSum ==
    (ev_out.kind = "evaluate") => ev_out.val <= SumValues(Range(ev_in))

\* C12 witness: a hand of 7 cards evaluated below the sum of its values.
C12_Witness ==
    /\ ev_out.kind = "evaluate" /\ Len(ev_in) = 7
    /\ ev_out.val < SumValues(Range(ev_in))

\* the sum of the reverse indices n-1-i (here Len - i) of the places of P
RECURSIVE ReverseIndexSum(_, _)
ReverseIndexSum(n, P) ==
    IF P = {} THEN 0
    ELSE LET i == CHOOSE x \in P : TRUE IN (n - i) + ReverseIndexSum(n, P \ {i})

\* C13 (as claimed): the pos_score of an arrangement is the sum of the reverse
\* indices of the melded places (those whose value the scan left at 0);
\* unmelded places count 0.
C13_PosScoreSumsMelded ==
    (ev_out.kind = "straight")
        => ev_out.val = ReverseIndexSum(Len(ev_in),
                            {i \in 1..Len(ev_in) : ScanValues(ev_in)[i] = 0})

\* C13 (amended): the pos_score of an arrangement is the sum of the reverse
\* indices of the unmelded places (those whose value the scan left non-zero);
\* melded places count 0.
C13_PosScoreSumsUnmelded ==
    (ev_out.kind = "straight")
        => ev_out.val = ReverseIndexSum(Len(ev_in),
                            {i \in 1..Len(ev_in) : ScanValues(ev_in)[i] # 0})

\* C13 witness: the scan of an arrangement with melded and unmelded places
\* where the two sums differ.
C13_Witness ==
    /\ ev_out.kind = "straight"
    /\ \E i, j \in 1..Len(ev_in) : ScanValues(ev_in)[i] = 0 /\ ScanValues(ev_in)[j] # 0
    /\ ReverseIndexSum(Len(ev_in), {i \in 1..Len(ev_in) : ScanValues(ev_in)[i] = 0})
          # ReverseIndexSum(Len(ev_in), {i \in 1..Len(ev_in) : ScanValues(ev_in)[i] # 0})

C15_SignalledCloseIsAccepted ==
    [][/\ (last'.op = "signal")
            => /\ pc' = "flip" /\ flip_pos' = last'.position
               /\ flip_pos' \in 0..HandSize
               /\ Len(IF who' = "human" THEN human' ELSE machine') = HandSize + 1
       /\ (pc = "flip")
            => /\ last'.op = "flip" /\ last'.who = who /\ last'.position = flip_pos
               /\ last'.exc = ""
               /\ Len(human') = HandSize /\ Len(machine') = HandSize
               /\ Len(table') = 1
       /\ (last'.op = "move_throw")
            => /\ last'.exc = ""
               /\ Len(IF last'.who = "human" THEN human' ELSE machine') = HandSize
               /\ Len(HandOf(last'.who)) = HandSize + 1
               /\ table' = Append(table, last'.card)
               /\ last'.card = HandOf(last'.who)[last'.position + 1]]_vars

\* C15 witness: the close signalled by the machine's move() has been accepted.
C15_Witness ==
    /\ last.op = "flip" /\ last.who = "machine" /\ last.exc = "" /\ last.position >= 0

\* C16: a draw asked for by a hand of 7 cards always finds a card.  Whenever
\* both hands hold 7 cards the table is not empty, and with the pile empty it
\* holds at least 2 cards, so the reshuffle gives a card; no draw has ended
\* with nothing to take (IndexError), and a hand that draws holds 7 cards only
\* when the other one does.
C16_DrawAlwaysFindsACard ==
    /\ (Len(human) = HandSize /\ Len(machine) = HandSize)
          => /\ Len(table) >= 1
             /\ (Len(cards) = 0) => (Len(table) >= 2)
    /\ last.exc # "IndexError"
    /\ (pc = "move_get" /\ Len(HandOf(who)) = HandSize)
          => (Len(human) = HandSize /\ Len(machine) = HandSize)
    /\ (pc = "prompt" /\ Len(human) = HandSize) => (Len(machine) = HandSize)

\* C16 witness: a draw is asked for by a hand of 7 cards with the pile empty.
C16_Witness ==
    /\ pc = "move_get" /\ Len(HandOf(who)) = HandSize
    /\ Len(cards) = 0

\* C17 (as claimed): inside one do_move the moves of the human and of the
\* machine alternate until a close, and once a close has ended the round the
\* command draws and throws no more: control is back at the prompt.
C17_AutoPlayStopsAtClose ==
    [][/\ (handler = "do_move" /\ last'.op = "move_throw" /\ last'.exc = ""
              /\ pc' = "move_get")
            => who' # who
       /\ (handler = "do_move" /\ last'.op = "flip" /\ last'.exc = "")
            => pc' = "prompt"]_vars

\* C18: turn order in manual play (deck, table, throw, flip).  A successful
\* throw by the human is followed at once by exactly one turn of the machine:
\* one draw, then one throw or one close, and then the prompt.  No other manual
\* command makes the machine act: the machine's hand changes in a step from
\* the prompt only when a close deals a new round.  After a successful close
\* the human holds 7 cards at the prompt, and from the prompt with 7 cards the
\* only manual command accepted is a draw by the human.
C18_ManualTurnOrder ==
    [][/\ (last'.op = "throw" /\ last'.exc = "")
            => (pc' = "move_get" /\ who' = "machine" /\ handler' = "do_throw"
                /\ machine' = machine)
       /\ (handler = "do_throw" /\ pc = "move_get")
            => (last'.op \in {"get_deck", "get_table"} /\ last'.who = "machine"
                /\ last'.exc = "" /\ pc' = "move_decide" /\ human' = human)
       /\ (handler = "do_throw" /\ pc = "move_decide")
            => \/ (last'.op = "move_throw" /\ last'.who = "machine" /\ last'.exc = ""
                    /\ pc' = "prompt" /\ human' = human)
               \/ (last'.op = "signal" /\ last'.who = "machine" /\ pc' = "flip")
       /\ (handler = "do_throw" /\ pc = "flip")
            => (last'.op = "flip" /\ last'.who = "machine" /\ last'.exc = ""
                /\ pc' = "prompt")
       /\ (pc = "prompt" /\ last'.op # "do_move"
              /\ ~(last'.op = "throw" /\ last'.exc = ""))
            => /\ pc' = "prompt"
               /\ (machine' # machine) => (last'.op = "flip" /\ last'.exc = "")
       /\ (last'.op = "flip" /\ last'.exc = "" /\ pc' = "prompt")
            => (Len(human') = HandSize /\ Len(machine') = HandSize)
       /\ (pc = "prompt" /\ Len(human) = HandSize /\ last'.op # "do_move"
              /\ last'.exc = "")
            => (last'.op \in {"get_deck", "get_table"} /\ last'.who = "human")]_vars

\* C18 witness: in manual play the machine has drawn right after the human's
\* throw and is about to throw or close.
C18_Witness ==
    /\ handler = "do_throw" /\ pc = "move_decide" /\ who = "machine"
    /\ last.op \in {"get_deck", "get_table"} /\ last.who = "machine"

\* C19: right after a successful close a fresh round is in place: each hand
\* holds 7 cards, the table 1 card and the pile the rest of the deck (25 of 40
\* in the source), dealt from a newly shuffled full deck; of the round that
\* ended only the two counters remain, each its old value plus the round's
\* score, or 0 after a win.
C19_FreshRoundAfterClose ==
    [][(last'.op = "flip" /\ last'.exc = "")
          => /\ Len(human') = HandSize /\ Len(machine') = HandSize
             /\ Len(table') = 1
             /\ Len(cards') = (NumSuits * NumRanks) - (2 * HandSize) - 1
             /\ \E d \in shuffle(NewCards) :
                   /\ human' = DealHand(d, 0)
                   /\ machine' = DealHand(d, 1)
                   /\ table' = <<d[Len(d) - (2 * HandSize)]>>
                   /\ cards' = SubSeq(d, 1, Len(d) - (2 * HandSize) - 1)
             /\ Range(cards' \o table' \o human' \o machine') = DeckCards
             /\ human_count' \in {0, human_count + last'.hval}
             /\ machine_count' \in {0, machine_count + last'.mval}]_vars

\* C19 witness: the human has closed and the new round is dealt, the counters
\* carried over.
C19_Witness ==
    /\ last.op = "flip" /\ last.who = "human" /\ last.exc = "" /\ last.said = {}
    /\ pc = "prompt" /\ human_count > 0
    /\ Len(table) = 1 /\ Len(human) = HandSize

\* the hand of w in the next state
HandOfNext(w) == IF w = "human" THEN human' ELSE machine'

\* C20: the evaluations and the trials of the decision procedure change no
\* game state.  A move of a hand of 7 cards leaves exactly the effect of the
\* one draw it makes (the trial with the top card of the table leaves nothing
\* behind); a signalled close leaves the hands and the piles as they were and a
\* throw removes the one card thrown (the trial removal leaves nothing behind);
\* a close refused after its evaluation changes nothing.
C20_TrialsChangeNothing ==
    [][/\ (pc = "move_get" /\ Len(HandOf(who)) = HandSize /\ Len(table) > 0)
            => /\ last'.exc = ""
               /\ HandOfNext(who) = Append(HandOf(who), last'.card)
               /\ (IF who = "human" THEN machine' = machine ELSE human' = human)
               /\ UNCHANGED <<human_count, machine_count>>
               /\ \/ /\ last'.op = "get_table"
                     /\ last'.card = table[Len(table)]
                     /\ table' = SubSeq(table, 1, Len(table) - 1) /\ cards' = cards
                  \/ /\ last'.op = "get_deck" /\ ~last'.reshuffled /\ Len(cards) > 0
                     /\ last'.card = cards[Len(cards)]
                     /\ cards' = SubSeq(cards, 1, Len(cards) - 1) /\ table' = table
                  \/ /\ last'.op = "get_deck" /\ last'.reshuffled /\ Len(cards) = 0
                     /\ table' = <<table[Len(table)]>>
       /\ (pc = "move_decide" /\ last'.op = "signal") => UNCHANGED gameVars
       /\ (pc = "move_decide" /\ last'.op = "move_throw")
            => /\ last'.exc = ""
               /\ HandOfNext(who) = RemoveAt(HandOf(who), last'.position + 1)
               /\ table' = Append(table, HandOf(who)[last'.position + 1])
               /\ cards' = cards
               /\ (IF who = "human" THEN machine' = machine ELSE human' = human)
       /\ (last'.op = "flip" /\ last'.exc # "") => UNCHANGED gameVars]_vars

\* C20 witness: the human's move() has tried the removal of a card and
\* signalled a close, its 8 cards still in the hand.
C20_Witness ==
    /\ last.op = "signal" /\ last.who = "human" /\ pc = "flip"
    /\ Len(human) = HandSize + 1

====
